---- MODULE Spec2Model ----
(***************************************************************************)
(* Model of library/ceph_volume.py: the Ansible module that assembles      *)
(* `ceph-volume lvm <subcommand>` argument vectors and runs them.          *)
(*                                                                         *)
(* Two specifications share the variables:                                 *)
(*   Spec       one invocation of run_module(), step by step;              *)
(*   SpecBuild  the command builders applied as pure functions.            *)
(*                                                                         *)
(* Python values: None is the string "None"; a str is a TLA+ string; a     *)
(* list is a sequence; an int is an integer.  module.exit_json and         *)
(* module.fail_json (ansible.module_utils.basic) print the result and end  *)
(* the process, so nothing of run_module runs after either of them.        *)
(***************************************************************************)
EXTENDS Integers, Sequences, FiniteSets, TLC

VARIABLES params, environ, check_mode, pc, container_image, cmd, rc, executed, result

vars == <<params, environ, check_mode, pc, container_image, cmd, rc, executed, result>>

----------------------------------------------------------------------------
(* Bounds of the input space *)

\* return codes of the external tool range over 0..MaxRc
MaxRc == 1

\* batch_devices holds at most MaxDevices entries
MaxDevices == 2

\* osds_per_device ranges over -1..MaxOsdsPerDevice
MaxOsdsPerDevice == 2

----------------------------------------------------------------------------
(* Python values *)

None == "None"

\* the value of result['rc'] before a command has run: the empty string ''
EmptyRc == -1

\* truth value of a str-or-None: None and '' are false
Truthy(x) == x # None /\ x # ""

\* list.extend(<str>) iterates the string: one element per character
chars(s) ==
    CASE s = "--yes" -> <<"-", "-", "y", "e", "s">>
      [] s = "--no-systemd" ->
            <<"-", "-", "n", "o", "-", "s", "y", "s", "t", "e", "m", "d">>

----------------------------------------------------------------------------
(* Inputs *)

ActionChoices == {"create", "zap", "batch", "prepare", "activate", "list"}

\* a value outside the choices, for the final else of the dispatch
OtherAction == "destroy"

Clusters == {"ceph", "test"}
ObjectStores == {"bluestore", "filestore"}
Datas == {"/dev/sdc", "data-lv"}
DataVgs == {None, "data-vg"}
Journals == {None, "journal-lv"}
JournalVgs == {None, "journal-vg"}
Dbs == {None, "db-lv"}
DbVgs == {None, "db-vg"}
Wals == {None, "wal-lv"}
WalVgs == {None, "wal-vg"}
DeviceClasses == {None, "ssd"}
Devices == {"/dev/sdb", "/dev/sdd"}
DeviceLists == UNION {[1..n -> Devices] : n \in 0..MaxDevices}
OsdCounts == (-1)..MaxOsdsPerDevice
ReturnCodes == 0..MaxRc

ParamSpace(A, C, O, D, DV, J, JV, B, BV, W, WV, K, M, L, N) ==
    [action: A, cluster: C, objectstore: O, data: D, data_vg: DV,
     journal: J, journal_vg: JV, db: B, db_vg: BV, wal: W, wal_vg: WV,
     crush_device_class: K, dmcrypt: M, batch_devices: L, osds_per_device: N]

\* module.params: each action varies the parameters its builders read, the
\* others keep the defaults of the argument spec
Params ==
    ParamSpace({"create", "prepare"}, Clusters, ObjectStores, Datas, DataVgs,
               Journals, JournalVgs, Dbs, DbVgs, Wals, WalVgs,
               DeviceClasses, BOOLEAN, {<<>>}, {1})
    \cup
    ParamSpace({"list"}, Clusters, {"bluestore"}, Datas, DataVgs,
               {None}, {None}, {None}, {None}, {None}, {None},
               {None}, {FALSE}, {<<>>}, {1})
    \cup
    ParamSpace({"zap"}, Clusters, {"bluestore"}, Datas, DataVgs,
               Journals, JournalVgs, Dbs, DbVgs, Wals, WalVgs,
               {None}, {FALSE}, {<<>>}, {1})
    \cup
    ParamSpace({"batch"}, Clusters, ObjectStores, {None}, {None},
               {None}, {None}, {None}, {None}, {None}, {None},
               DeviceClasses, BOOLEAN, DeviceLists, OsdCounts)
    \cup
    ParamSpace({"activate", OtherAction}, Clusters, {"bluestore"}, {None}, {None},
               {None}, {None}, {None}, {None}, {None}, {None},
               {None}, {FALSE}, {<<>>}, {1})

\* os.environ restricted to the one variable the module reads: absent,
\* present and empty, present with an image name
Environs ==
    { {}, {<<"CEPH_CONTAINER_IMAGE", "">>},
      {<<"CEPH_CONTAINER_IMAGE", "ceph/daemon">>} }

----------------------------------------------------------------------------
(* Command builders *)

container_exec(binary, image) ==
    <<"docker", "run", "--rm", "--privileged", "--net=host",
      "-v", "/run/lock/lvm:/run/lock/lvm:z",
      "-v", "/dev:/dev", "-v", "/etc/ceph:/etc/ceph:z",
      "-v", "/run/lvm/lvmetad.socket:/run/lvm/lvmetad.socket",
      "-v", "/var/lib/ceph/:/var/lib/ceph/:z",
      "--entrypoint=" \o binary,
      image>>

\* mutant: '--cluster <name>' appended after the subcommand
build_ceph_volume_cmd_cluster_last(subcommand, image, cluster) ==
    LET binary == IF Truthy(image)
                  THEN container_exec("ceph-volume", image)
                  ELSE <<"ceph-volume">>
        withLvm == binary \o <<"lvm", subcommand>>
    IN  IF Truthy(cluster) THEN withLvm \o <<"--cluster", cluster>> ELSE withLvm

\* mutant: '--cluster' left out for the default cluster name
build_ceph_volume_cmd_skip_default(subcommand, image, cluster) ==
    LET binary == IF Truthy(image)
                  THEN container_exec("ceph-volume", image)
                  ELSE <<"ceph-volume">>
        withCluster == IF Truthy(cluster) /\ cluster # "ceph"
                       THEN binary \o <<"--cluster", cluster>>
                       ELSE binary
    IN  withCluster \o <<"lvm", subcommand>>

build_ceph_volume_cmd(subcommand, image, cluster) ==
    LET binary == IF Truthy(image)
                  THEN container_exec("ceph-volume", image)
                  ELSE <<"ceph-volume">>
        withCluster == IF Truthy(cluster)
                       THEN binary \o <<"--cluster", cluster>>
                       ELSE binary
    IN  withCluster \o <<"lvm", subcommand>>

\* mutant: the environment variable is not consulted
is_containerized_ignores_env(env) == None

is_containerized(env) ==
    IF \E e \in env : e[1] = "CEPH_CONTAINER_IMAGE"
    THEN (CHOOSE e \in env : e[1] = "CEPH_CONTAINER_IMAGE")[2]
    ELSE None

get_data(data, data_vg) ==
    IF Truthy(data_vg) THEN data_vg \o "/" \o data ELSE data

get_journal(journal, journal_vg) ==
    IF Truthy(journal_vg) THEN journal_vg \o "/" \o journal ELSE journal

get_db(db, db_vg) ==
    IF Truthy(db_vg) THEN db_vg \o "/" \o db ELSE db

get_wal(wal, wal_vg) ==
    IF Truthy(wal_vg) THEN wal_vg \o "/" \o wal ELSE wal

\* mutant: the check of batch_devices is missing
batch_error_ignores_devices(p) ==
    IF p.osds_per_device = 0
    THEN "osds_per_device must be provided if action is \"batch\""
    ELSE IF p.osds_per_device < 1
    THEN "osds_per_device must be greater than 0 if action is \"batch\""
    ELSE None

\* the message of the fatal() call batch() stops at, None when it passes
batch_error(p) ==
    IF p.osds_per_device = 0
    THEN "osds_per_device must be provided if action is \"batch\""
    ELSE IF p.osds_per_device < 1
    THEN "osds_per_device must be greater than 0 if action is \"batch\""
    ELSE IF Len(p.batch_devices) = 0
    THEN "batch_devices must be provided if action is \"batch\""
    ELSE None

batch(p, image) ==
    LET c0 == build_ceph_volume_cmd("batch", image, p.cluster)
        c1 == c0 \o <<"--" \o p.objectstore>>
        c2 == c1 \o chars("--yes")
        c3 == c2 \o chars("--no-systemd")
        c4 == IF Truthy(p.crush_device_class)
              THEN c3 \o <<"--crush-device-class", p.crush_device_class>>
              ELSE c3
        c5 == IF p.dmcrypt THEN Append(c4, "--dmcrypt") ELSE c4
        c6 == IF p.osds_per_device > 1
              THEN c5 \o <<"--osds-per-device", p.osds_per_device>>
              ELSE c5
    IN  c6 \o p.batch_devices

prepare_osd(p, image) ==
    LET c0 == build_ceph_volume_cmd("prepare", image, p.cluster)
        c1 == c0 \o <<"--" \o p.objectstore>>
        c2 == Append(Append(c1, "--data"), p.data)
        c3 == IF Truthy(p.journal)
              THEN c2 \o <<"--journal", get_journal(p.journal, p.journal_vg)>>
              ELSE c2
        c4 == IF Truthy(p.db)
              THEN c3 \o <<"--block.db", get_db(p.db, p.db_vg)>>
              ELSE c3
        c5 == IF Truthy(p.wal)
              THEN c4 \o <<"--block.wal", get_wal(p.wal, p.wal_vg)>>
              ELSE c4
        c6 == IF Truthy(p.crush_device_class)
              THEN c5 \o <<"--crush-device-class", p.crush_device_class>>
              ELSE c5
    IN  IF p.dmcrypt THEN Append(c6, "--dmcrypt") ELSE c6

list_osd(p, image) ==
    LET data == get_data(p.data, p.data_vg)
        c0 == build_ceph_volume_cmd("list", image, p.cluster)
    IN  Append(Append(c0, data), "--format=json")

activate_osd ==
    Append(build_ceph_volume_cmd("activate", None, None), "--all")

zap_devices(p, image) ==
    LET data == get_data(p.data, p.data_vg)
        c0 == build_ceph_volume_cmd("zap", image, None)
        c1 == Append(Append(c0, "--destroy"), data)
        c2 == IF Truthy(p.journal)
              THEN c1 \o <<get_journal(p.journal, p.journal_vg)>>
              ELSE c1
        c3 == IF Truthy(p.db)
              THEN c2 \o <<get_db(p.db, p.db_vg)>>
              ELSE c2
    IN  IF Truthy(p.wal)
        THEN c3 \o <<get_wal(p.wal, p.wal_vg)>>
        ELSE c3

----------------------------------------------------------------------------
(* Results handed to the automation engine *)

\* the result dict run_module starts from
InitialResult ==
    [outcome |-> "none", changed |-> FALSE, rc |-> EmptyRc, msg |-> None]

\* fatal(message, module): module.fail_json(msg=message, changed=False, rc=1)
fatal(message) ==
    [outcome |-> "fail_json", changed |-> FALSE, rc |-> 1, msg |-> message]

\* the "skipped, already used for an osd" exit of the probe
skipped_result ==
    [outcome |-> "exit_json", changed |-> InitialResult.changed, rc |-> 0,
     msg |-> None]

\* mutant: changed is reported only when the command succeeded
final_result_changed_on_success(code) ==
    [outcome |-> IF code # 0 THEN "fail_json" ELSE "exit_json",
     changed |-> (code = 0), rc |-> code,
     msg |-> IF code # 0 THEN "non-zero return code" ELSE None]

\* the result dict rebuilt after the dispatch, and how it is handed back
final_result(code) ==
    [outcome |-> IF code # 0 THEN "fail_json" ELSE "exit_json",
     changed |-> TRUE, rc |-> code,
     msg |-> IF code # 0 THEN "non-zero return code" ELSE None]

\* the arm of the if/elif chain of run_module an action value selects; the
\* first test takes both 'create' and 'prepare', so the two arms after it
\* are never selected
SelectedBranch(action) ==
    IF action = "create" \/ action = "prepare" THEN "probe"
    ELSE IF action = "create" THEN "create"
    ELSE IF action = "prepare" THEN "prepare"
    ELSE IF action = "activate" THEN "activate"
    ELSE IF action = "zap" THEN "zap"
    ELSE IF action = "list" THEN "list"
    ELSE IF action = "batch" THEN "batch"
    ELSE "else"

\* the command of the arms that only build a vector and execute it
branch_cmd(branch, p, image) ==
    CASE branch = "probe" -> list_osd(p, image)
      [] branch = "create" -> prepare_osd(p, image)
      [] branch = "prepare" -> prepare_osd(p, image)
      [] branch = "zap" -> zap_devices(p, image)
      [] branch = "list" -> list_osd(p, image)

\* mutant: the probe's return code is not tested
after_exec_always_report(branch, code) ==
    IF branch = "create"
    THEN (IF code # 0 THEN "fail_initial" ELSE "activate")
    ELSE "report"

\* what an arm does once its exec_command has returned code
after_exec(branch, code) ==
    IF branch = "probe"
    THEN (IF code = 0 THEN "skipped" ELSE "report")
    ELSE IF branch = "create"
    THEN (IF code # 0 THEN "fail_initial" ELSE "activate")
    ELSE "report"

----------------------------------------------------------------------------
(* run_module, one invocation *)

Init ==
    /\ params \in Params
    /\ environ \in Environs
    /\ check_mode \in BOOLEAN
    /\ pc = "start"
    /\ container_image = None
    /\ cmd = <<>>
    /\ rc = EmptyRc
    /\ executed = <<>>
    /\ result = InitialResult

\* if module.check_mode: return result
CheckMode ==
    /\ pc = "start"
    /\ check_mode
    /\ pc' = "done"
    /\ result' = [InitialResult EXCEPT !.outcome = "return"]
    /\ UNCHANGED <<params, environ, check_mode, container_image, cmd, rc, executed>>

\* action = module.params['action']; container_image = is_containerized()
Begin ==
    /\ pc = "start"
    /\ ~check_mode
    /\ container_image' = is_containerized(environ)
    /\ pc' = "dispatch"
    /\ UNCHANGED <<params, environ, check_mode, cmd, rc, executed, result>>

\* the arms that build one vector and pass it to exec_command
DispatchBuild ==
    /\ pc = "dispatch"
    /\ SelectedBranch(params.action) \in {"probe", "create", "prepare", "zap", "list"}
    /\ cmd' = branch_cmd(SelectedBranch(params.action), params, container_image)
    /\ pc' = "exec"
    /\ UNCHANGED <<params, environ, check_mode, container_image, rc, executed, result>>

\* elif action == 'activate'
DispatchActivate ==
    /\ pc = "dispatch"
    /\ SelectedBranch(params.action) = "activate"
    /\ IF Truthy(container_image)
       THEN /\ result' = fatal("This is not how container's activation happens, nothing to activate")
            /\ pc' = "done"
            /\ cmd' = cmd
       ELSE /\ cmd' = activate_osd
            /\ pc' = "exec"
            /\ result' = result
    /\ UNCHANGED <<params, environ, check_mode, container_image, rc, executed>>

\* elif action == 'batch'
DispatchBatch ==
    /\ pc = "dispatch"
    /\ SelectedBranch(params.action) = "batch"
    /\ IF batch_error(params) # None
       THEN /\ result' = fatal(batch_error(params))
            /\ pc' = "done"
            /\ cmd' = cmd
       ELSE /\ cmd' = batch(params, container_image)
            /\ pc' = "exec"
            /\ result' = result
    /\ UNCHANGED <<params, environ, check_mode, container_image, rc, executed>>

\* else: module.fail_json(msg='State must either be ...', changed=False, rc=1)
DispatchElse ==
    /\ pc = "dispatch"
    /\ SelectedBranch(params.action) = "else"
    /\ result' = [outcome |-> "fail_json", changed |-> FALSE, rc |-> 1,
                  msg |-> "State must either be \"create\" or \"prepare\" or \"activate\" or \"list\" or \"zap\" or \"batch\"."]
    /\ pc' = "done"
    /\ UNCHANGED <<params, environ, check_mode, container_image, cmd, rc, executed>>

\* mutant: a failed command is run a second time
exec_command_retry ==
    /\ pc = "exec"
    /\ \E code \in ReturnCodes :
          /\ rc' = code
          /\ executed' = Append(executed, [cmd |-> cmd, rc |-> code])
          /\ pc' = IF code # 0 /\ executed = <<>> THEN "exec" ELSE "after_exec"
    /\ UNCHANGED <<params, environ, check_mode, container_image, cmd, result>>

\* exec_command: module.run_command(cmd) runs the vector and waits for it
exec_command ==
    /\ pc = "exec"
    /\ \E code \in ReturnCodes :
          /\ rc' = code
          /\ executed' = Append(executed, [cmd |-> cmd, rc |-> code])
    /\ pc' = "after_exec"
    /\ UNCHANGED <<params, environ, check_mode, container_image, cmd, result>>

\* if rc == 0 after the probe: module.exit_json(**result)
ProbeSkip ==
    /\ pc = "after_exec"
    /\ after_exec(SelectedBranch(params.action), rc) = "skipped"
    /\ result' = skipped_result
    /\ pc' = "done"
    /\ UNCHANGED <<params, environ, check_mode, container_image, cmd, rc, executed>>

\* the code after the if/elif chain
Report ==
    /\ pc = "after_exec"
    /\ after_exec(SelectedBranch(params.action), rc) = "report"
    /\ result' = final_result(rc)
    /\ pc' = "done"
    /\ UNCHANGED <<params, environ, check_mode, container_image, cmd, rc, executed>>

Next ==
    \/ CheckMode
    \/ Begin
    \/ DispatchBuild
    \/ DispatchActivate
    \/ DispatchBatch
    \/ DispatchElse
    \/ exec_command
    \/ ProbeSkip
    \/ Report

Spec == Init /\ [][Next]_vars

----------------------------------------------------------------------------
(* The builders as pure functions of the parameters and the image *)

InitBuild ==
    /\ params \in Params
    /\ environ \in Environs
    /\ check_mode = FALSE
    /\ pc = "input"
    /\ container_image = None
    /\ cmd = <<>>
    /\ rc = EmptyRc
    /\ executed = <<>>
    /\ result = InitialResult

Built(builder, vector) ==
    /\ pc = "input"
    /\ container_image' = is_containerized(environ)
    /\ cmd' = vector
    /\ pc' = builder
    /\ UNCHANGED <<params, environ, check_mode, rc, executed, result>>

BuildList == Built("list_osd", list_osd(params, is_containerized(environ)))

BuildPrepare == Built("prepare_osd", prepare_osd(params, is_containerized(environ)))

BuildZap == Built("zap_devices", zap_devices(params, is_containerized(environ)))

BuildActivate == Built("activate_osd", activate_osd)

BuildBatch ==
    /\ pc = "input"
    /\ container_image' = is_containerized(environ)
    /\ IF batch_error(params) # None
       THEN /\ result' = fatal(batch_error(params))
            /\ cmd' = cmd
            /\ pc' = "batch_fatal"
       ELSE /\ cmd' = batch(params, is_containerized(environ))
            /\ result' = result
            /\ pc' = "batch"
    /\ UNCHANGED <<params, environ, check_mode, rc, executed>>

NextBuild ==
    \/ BuildList
    \/ BuildPrepare
    \/ BuildZap
    \/ BuildActivate
    \/ BuildBatch

SpecBuild == InitBuild /\ [][NextBuild]_vars

TypeOK ==
    /\ params \in Params
    /\ environ \in Environs
    /\ check_mode \in BOOLEAN
    /\ rc \in ReturnCodes \cup {EmptyRc}
    /\ result.outcome \in {"none", "return", "exit_json", "fail_json"}
    /\ result.changed \in BOOLEAN

----------------------------------------------------------------------------
(* Properties of run_module, checked under Spec *)

\* the image variable is present in the environment and non-empty
ImageSet == \E e \in environ : e[1] = "CEPH_CONTAINER_IMAGE" /\ e[2] # ""

\* v is a 'ceph-volume lvm <sub> ...' vector (vectors without an int element)
IsLvm(v, sub) == \E i \in 1..(Len(v) - 1) : v[i] = "lvm" /\ v[i + 1] = sub

InvalidBatch == Len(params.batch_devices) = 0 \/ params.osds_per_device < 1

\* C1: outside check mode and without a container image, for 'create' or
\* 'prepare' a probe that exits non-zero is followed by the execution of
\* 'lvm prepare', and for 'create' a prepare that exits 0 is followed by
\* 'lvm activate --all' (the original claim; the code refutes it).
C1_ProbeMissThenPrepareThenActivate ==
    ( /\ pc = "done"
      /\ ~check_mode
      /\ ~ImageSet
      /\ params.action \in {"create", "prepare"}
      /\ Len(executed) >= 1
      /\ executed[1].rc # 0 )
    => /\ IsLvm(executed[1].cmd, "list")
       /\ Len(executed) >= 2
       /\ IsLvm(executed[2].cmd, "prepare")
       /\ ( params.action = "create" /\ executed[2].rc = 0
            => /\ Len(executed) = 3
               /\ executed[3].cmd = <<"ceph-volume", "lvm", "activate", "--all">> )

\* C2: for 'create' or 'prepare', once the 'lvm list' probe has exited 0 no
\* other command is executed and the invocation ends with exit_json,
\* changed=false and rc=0.
C2_ProbeHitIsNoopSuccess ==
    ( /\ params.action \in {"create", "prepare"}
      /\ Len(executed) >= 1
      /\ executed[1].rc = 0 )
    => /\ Len(executed) = 1
       /\ IsLvm(executed[1].cmd, "list")
       /\ pc \in {"after_exec", "done"}
       /\ ( pc = "done"
            => /\ result.outcome = "exit_json"
               /\ result.changed = FALSE
               /\ result.rc = 0 )

C2_Witness ==
    /\ pc = "done"
    /\ params.action = "create"
    /\ Len(executed) = 1
    /\ executed[1].rc = 0
    /\ result.outcome = "exit_json"

\* C3 (original claim): every invocation that ends in failure reports
\* changed=false.
C3_FailureReportsUnchanged ==
    result.outcome = "fail_json" => result.changed = FALSE

\* C3 (amended): a failure raised before any command ran (batch validation,
\* containerized activate, unrecognized action) reports changed=false and
\* rc=1; a failure for a non-zero exit code reports changed=true and that
\* exit code.
C3_FailureChangedIffCommandRan ==
    result.outcome = "fail_json"
    => IF executed = <<>>
       THEN /\ result.changed = FALSE
            /\ result.rc = 1
            /\ \/ params.action = "batch" /\ InvalidBatch
               \/ params.action = "activate" /\ ImageSet
               \/ params.action \notin ActionChoices
       ELSE /\ result.changed = TRUE
            /\ result.rc = executed[Len(executed)].rc
            /\ result.rc # 0

C3_Witness ==
    /\ pc = "done"
    /\ result.outcome = "fail_json"
    /\ params.action = "zap"
    /\ Len(executed) = 1
    /\ executed[1].rc # 0

\* C4 (original claim): for 'activate' with a container image set the
\* invocation ends in a fatal failure and no subprocess is executed.
C4_ContainerActivateFails ==
    ( params.action = "activate" /\ ImageSet )
    => /\ executed = <<>>
       /\ pc # "exec"
       /\ ( pc = "done" => result.outcome = "fail_json" )

\* C4 (amended): for 'activate' with a container image set no subprocess is
\* executed; outside check mode the invocation ends in a fatal failure
\* (changed=false, rc=1), in check mode it returns the initial result.
C4_ContainerActivateFailsOutsideCheckMode ==
    ( params.action = "activate" /\ ImageSet )
    => /\ executed = <<>>
       /\ pc # "exec"
       /\ ( pc = "done"
            => IF check_mode
               THEN result.outcome = "return" /\ result.changed = FALSE
               ELSE /\ result.outcome = "fail_json"
                    /\ result.changed = FALSE
                    /\ result.rc = 1 )

C4_Witness ==
    /\ pc = "done"
    /\ params.action = "activate"
    /\ ImageSet
    /\ ~check_mode
    /\ result.outcome = "fail_json"

\* C5 (original claim): for 'batch' with batch_devices empty or
\* osds_per_device < 1, whatever the other parameters, the invocation fails
\* with a validation error and no subprocess is executed.
C5_InvalidBatchFails ==
    ( params.action = "batch" /\ InvalidBatch )
    => /\ executed = <<>>
       /\ pc # "exec"
       /\ ( pc = "done"
            => /\ result.outcome = "fail_json"
               /\ result.msg \in
                    {"osds_per_device must be provided if action is \"batch\"",
                     "osds_per_device must be greater than 0 if action is \"batch\"",
                     "batch_devices must be provided if action is \"batch\""} )

\* C5 (amended): for 'batch' with batch_devices empty or osds_per_device < 1,
\* whatever the other parameters, no subprocess is executed; outside check
\* mode the invocation fails with a validation error, in check mode it
\* returns the initial result.
C5_InvalidBatchFailsOutsideCheckMode ==
    ( params.action = "batch" /\ InvalidBatch )
    => /\ executed = <<>>
       /\ pc # "exec"
       /\ ( pc = "done"
            => IF check_mode
               THEN result.outcome = "return" /\ result.changed = FALSE
               ELSE /\ result.outcome = "fail_json"
                    /\ result.changed = FALSE
                    /\ result.msg \in
                         {"osds_per_device must be provided if action is \"batch\"",
                          "osds_per_device must be greater than 0 if action is \"batch\"",
                          "batch_devices must be provided if action is \"batch\""} )

C5_Witness ==
    /\ pc = "done"
    /\ params.action = "batch"
    /\ Len(params.batch_devices) = 0
    /\ params.osds_per_device >= 1
    /\ params.dmcrypt
    /\ ~check_mode
    /\ result.outcome = "fail_json"

----------------------------------------------------------------------------
(* Properties of the builders, checked under SpecBuild *)

\* the effective reference of a device specification
Ref(name, vg) == IF vg # None THEN vg \o "/" \o name ELSE name

\* the reference of an optional device, as a list of zero or one argument
OptRef(name, vg) == IF name # None THEN <<Ref(name, vg)>> ELSE <<>>

\* position of the binary (direct execution) or of the image (container)
BinaryAt == IF container_image # None /\ container_image # "" THEN 17 ELSE 1

\* the vector starts with the binary, or with a container run whose last two
\* elements are the entrypoint and the image
StartsWithBinary ==
    IF BinaryAt = 1
    THEN cmd[1] = "ceph-volume"
    ELSE /\ cmd[1] = "docker"
         /\ cmd[BinaryAt - 1] = "--entrypoint=ceph-volume"
         /\ cmd[BinaryAt] = container_image

\* position of the 'lvm' keyword in a vector of strings
LvmAt == CHOOSE i \in 1..Len(cmd) : cmd[i] = "lvm"

\* the element that follows a flag in a vector of strings
After(flag) == cmd[(CHOOSE i \in 1..Len(cmd) : cmd[i] = flag) + 1]

\* C6: for a valid batch input, the vector of batch() has '--yes' and
\* '--no-systemd' as whole arguments right after 'lvm', 'batch',
\* '--<objectstore>', then the optional flags, and ends with the devices of
\* batch_devices in their order (the original claim; the code refutes it).
C6_BatchVectorLayout ==
    pc = "batch"
    => LET k == BinaryAt + 2
           flags == (IF params.crush_device_class # None
                     THEN <<"--crush-device-class", params.crush_device_class>>
                     ELSE <<>>)
                    \o (IF params.dmcrypt THEN <<"--dmcrypt">> ELSE <<>>)
                    \o (IF params.osds_per_device > 1
                        THEN <<"--osds-per-device", params.osds_per_device>>
                        ELSE <<>>)
       IN  /\ cmd[k + 1] = "lvm"
           /\ cmd[k + 2] = "batch"
           /\ cmd[k + 3] = "--" \o params.objectstore
           /\ cmd[k + 4] = "--yes"
           /\ cmd[k + 5] = "--no-systemd"
           /\ Len(cmd) = k + 5 + Len(flags) + Len(params.batch_devices)
           /\ SubSeq(cmd, k + 6, Len(cmd)) = flags \o params.batch_devices

\* C7: list_osd, prepare_osd and zap_devices emit '<vg>/<name>' for each of
\* data, journal, db and wal whose volume group is set and the raw name
\* otherwise; in particular the argument after '--data' of prepare is
\* '<data_vg>/<data>' when data_vg is set (the original claim; the code
\* refutes it).
C7_DeviceReferences ==
    params.data # None
    => /\ pc = "list_osd"
          => cmd[LvmAt + 2] = Ref(params.data, params.data_vg)
       /\ pc = "zap_devices"
          => SubSeq(cmd, LvmAt + 3, Len(cmd))
               = <<Ref(params.data, params.data_vg)>>
                 \o OptRef(params.journal, params.journal_vg)
                 \o OptRef(params.db, params.db_vg)
                 \o OptRef(params.wal, params.wal_vg)
       /\ pc = "prepare_osd"
          => /\ params.journal # None
                => After("--journal") = Ref(params.journal, params.journal_vg)
             /\ params.db # None
                => After("--block.db") = Ref(params.db, params.db_vg)
             /\ params.wal # None
                => After("--block.wal") = Ref(params.wal, params.wal_vg)
             /\ After("--data") = Ref(params.data, params.data_vg)

\* C8 (original claim): for list, prepare, zap and batch, with or without a
\* container image, a cluster name other than 'ceph' appears as '--cluster',
\* '<name>' right after the binary or the image and right before 'lvm'.
C8_ClusterAfterBinary ==
    ( /\ pc \in {"list_osd", "prepare_osd", "zap_devices", "batch"}
      /\ params.cluster # "ceph" )
    => /\ StartsWithBinary
       /\ cmd[BinaryAt + 1] = "--cluster"
       /\ cmd[BinaryAt + 2] = params.cluster
       /\ cmd[BinaryAt + 3] = "lvm"

\* C8 (amended): for list, prepare and batch, with or without a container
\* image, a cluster name other than 'ceph' appears as '--cluster', '<name>'
\* right after the binary or the image and right before 'lvm'; the zap
\* vector has 'lvm' right after the binary or the image and no '--cluster'.
C8_ClusterAfterBinaryExceptZap ==
    params.cluster # "ceph"
    => /\ pc \in {"list_osd", "prepare_osd", "batch"}
          => /\ StartsWithBinary
             /\ cmd[BinaryAt + 1] = "--cluster"
             /\ cmd[BinaryAt + 2] = params.cluster
             /\ cmd[BinaryAt + 3] = "lvm"
       /\ pc = "zap_devices"
          => /\ StartsWithBinary
             /\ cmd[BinaryAt + 1] = "lvm"
             /\ \A i \in 1..Len(cmd) : cmd[i] # "--cluster"

C8_Witness ==
    /\ pc = "batch"
    /\ params.cluster = "test"
    /\ container_image = "ceph/daemon"
    /\ cmd[18] = "--cluster"

\* C9 (original claim): with cluster 'ceph' and no container image, list
\* returns exactly ['ceph-volume', 'lvm', 'list', <data-ref>,
\* '--format=json'] and prepare a vector that starts with ['ceph-volume',
\* 'lvm', 'prepare']; no '--cluster' appears.
C9_DefaultClusterNotEmitted ==
    ( /\ params.cluster = "ceph"
      /\ params.data # None
      /\ pc \in {"list_osd", "prepare_osd"}
      /\ BinaryAt = 1 )
    => /\ pc = "list_osd"
          => cmd = <<"ceph-volume", "lvm", "list",
                     Ref(params.data, params.data_vg), "--format=json">>
       /\ pc = "prepare_osd"
          => SubSeq(cmd, 1, 3) = <<"ceph-volume", "lvm", "prepare">>
       /\ \A i \in 1..Len(cmd) : cmd[i] # "--cluster"

\* C9 (amended): with cluster 'ceph' and no container image, list returns
\* exactly ['ceph-volume', '--cluster', 'ceph', 'lvm', 'list', <data-ref>,
\* '--format=json'] and prepare a vector that starts with ['ceph-volume',
\* '--cluster', 'ceph', 'lvm', 'prepare'].
C9_DefaultClusterEmitted ==
    ( /\ params.cluster = "ceph"
      /\ params.data # None
      /\ pc \in {"list_osd", "prepare_osd"}
      /\ BinaryAt = 1 )
    => /\ pc = "list_osd"
          => cmd = <<"ceph-volume", "--cluster", "ceph", "lvm", "list",
                     Ref(params.data, params.data_vg), "--format=json">>
       /\ pc = "prepare_osd"
          => SubSeq(cmd, 1, 5)
               = <<"ceph-volume", "--cluster", "ceph", "lvm", "prepare">>

C9_Witness ==
    /\ pc = "list_osd"
    /\ params.action = "create"
    /\ params.cluster = "ceph"
    /\ params.data = "/dev/sdc"
    /\ params.data_vg = None
    /\ environ = {}
    /\ Len(cmd) = 7

====
